---- MODULE Spec2Model ----
(***************************************************************************)
(* Model of the batching and contingency-analysis pipeline:                *)
(*   data_processing.py  define_batches_by_column, sliding_window_batches  *)
(*   analysis.py         build_contingency_table, chi_square_test,         *)
(*                       fisher_test_if_applicable, cramers_v,             *)
(*                       pairwise_chi2_posthoc                             *)
(*   reporting.py        summarize_batch                                   *)
(* A DataFrame is a sequence of records; a record is identified by its     *)
(* position in the caller's frame.  Library calls (pandas sort_values,     *)
(* groupby, crosstab, iloc; scipy chi2_contingency, fisher_exact) are       *)
(* modelled by what they do on these inputs, including the errors they     *)
(* raise.                                                                  *)
(***************************************************************************)
EXTENDS Integers, Sequences, FiniteSets, TLC

VARIABLES
    \* ---- sliding_window_batches ----
    df,              \* the time column of the caller's frame, one value per record
    time_col_ok,     \* whether time_col names a column of df
    window_size,
    step,
    sort_ascending,
    sorted_df,       \* df after sort_values: sorted_df[p] is the record at position p
    start,
    batches,         \* the list being built; a batch is a sequence of records
    sw_pc,
    \* ---- define_batches_by_column ----
    key_col,         \* the batch_col column of the caller's frame, one value per record
    batch_col_ok,    \* whether batch_col names a column of the frame
    group_keys,      \* the keys the groupby iteration has still to yield
    key_batches,     \* the list being built; a batch is a sequence of records
    bk_pc,
    \* ---- contingency table and tests ----
    entry,           \* the function the caller invokes on the batch (or on its table)
    tab_batch,       \* the batch: a sequence of records <<row value, col value>>
    cols_ok,         \* whether row and col name columns of the batch
    alpha,           \* significance threshold handed to pairwise_chi2_posthoc
    table,           \* the contingency table
    chi2_res,        \* result of chi_square_test
    fisher_res,      \* result of fisher_test_if_applicable
    v_res,           \* result of cramers_v
    ph_i,            \* pairwise_chi2_posthoc: loop indices (1-based) ...
    ph_j,
    ph_results,      \* ... its results list ...
    ph_m,            \* ... and its comparison counter m
    summary,         \* the record summarize_batch returns
    tab_pc,
    tab_err          \* the function in which an exception was raised

swVars == <<df, time_col_ok, window_size, step, sort_ascending, sorted_df, start, batches, sw_pc>>

bkVars == <<key_col, batch_col_ok, group_keys, key_batches, bk_pc>>

tabVars == <<entry, tab_batch, cols_ok, alpha, table, chi2_res, fisher_res, v_res,
             ph_i, ph_j, ph_results, ph_m, summary, tab_pc, tab_err>>

notWindow == <<bkVars, tabVars>>
notByKey == <<swVars, tabVars>>
notTable == <<swVars, bkVars>>

vars == <<swVars, bkVars, tabVars>>

\* ---- bounds ----
MaxN == 3          \* records in a frame given to sliding_window_batches
MaxTime == 2       \* distinct non-missing values of the time column
MaxWin == 3        \* largest window_size tried
MaxStep == 3       \* largest step tried
MaxBatches == 5    \* cap on emitted batches (only a non-advancing loop reaches it)
MaxRecords == 4    \* records in a frame given to define_batches_by_column
MaxKey == 2        \* distinct non-missing values of the batch column
MaxBatchLen == 3   \* records in a batch handed to the contingency analysis

Min(a, b) == IF a < b THEN a ELSE b
Max(a, b) == IF a > b THEN a ELSE b

SeqsUpTo(S, k) == UNION {[1..m -> S] : m \in 0..k}

\* ---- a component that is not the one under analysis stays idle ----
IdleWindow ==
    /\ df = <<>>
    /\ time_col_ok = FALSE
    /\ window_size = 0
    /\ step = 0
    /\ sort_ascending = FALSE
    /\ sorted_df = <<>>
    /\ start = 0
    /\ batches = <<>>
    /\ sw_pc = "idle"

IdleByKey ==
    /\ key_col = <<>>
    /\ batch_col_ok = FALSE
    /\ group_keys = <<>>
    /\ key_batches = <<>>
    /\ bk_pc = "idle"

\* a result that has not been computed
Unset == [tag |-> "unset"]

\* alpha: float = 0.05
DefaultAlpha == <<5, 100>>

IdleTable ==
    /\ entry = "idle"
    /\ tab_batch = <<>>
    /\ cols_ok = FALSE
    /\ alpha = DefaultAlpha
    /\ table = Unset
    /\ chi2_res = Unset
    /\ fisher_res = Unset
    /\ v_res = Unset
    /\ ph_i = 1
    /\ ph_j = 2
    /\ ph_results = <<>>
    /\ ph_m = 0
    /\ summary = Unset
    /\ tab_pc = "idle"
    /\ tab_err = "none"

(***************************************************************************)
(* sliding_window_batches                                                  *)
(***************************************************************************)

\* A missing time value (NaN/NaT); sort_values puts these last in either direction.
NaT == MaxTime + 1
TimeValues == 1..NaT

\* sort_values(by=time_col, ascending=...): a may stand before b
SortsBefore(a, b, asc) ==
    IF b = NaT THEN TRUE
    ELSE IF a = NaT THEN FALSE
    ELSE IF asc THEN a <= b ELSE a >= b

PermsOf(k) == {p \in [1..k -> 1..k] : \A i, j \in 1..k : p[i] = p[j] => i = j}

\* Every order sort_values may return: the default sort kind is not stable, so records
\* with equal keys may come out in any order.
SortValues(frame, asc) ==
    {p \in PermsOf(Len(frame)) :
        \A i, j \in 1..Len(frame) : i < j => SortsBefore(frame[p[i]], frame[p[j]], asc)}

\* Python slice bound on a sequence of length k (negative counts from the end).
SliceBound(i, k) == IF i < 0 THEN Max(i + k, 0) ELSE Min(i, k)

\* frame.iloc[s:e] with 0-based s, e
ILoc(frame, s, e) ==
    LET lo == SliceBound(s, Len(frame))
        hi == SliceBound(e, Len(frame))
    IN  IF hi <= lo THEN <<>> ELSE [k \in 1..(hi - lo) |-> frame[lo + k]]

\* a window end that is not clamped to the frame's length
WindowEnd_NoClamp(s, w, k) == s + w

\* end = min(start + window_size, n)
WindowEnd(s, w, k) == Min(s + w, k)

\* a start that advances one record too far
NextStart_Skip(s, st) == s + st + 1

\* start += step
NextStart(s, st) == s + st

InitWindow ==
    /\ df \in SeqsUpTo(TimeValues, MaxN)
    /\ time_col_ok \in BOOLEAN
    /\ window_size \in 0..MaxWin
    /\ step \in (-1)..MaxStep
    /\ sort_ascending \in BOOLEAN
    /\ sorted_df = <<>>
    /\ start = 0
    /\ batches = <<>>
    /\ sw_pc = "call"
    /\ IdleByKey
    /\ IdleTable

\* df.sort_values(by=time_col) raises KeyError when the column is absent
SlidingKeyError ==
    /\ sw_pc = "call"
    /\ ~time_col_ok
    /\ sw_pc' = "error"
    /\ UNCHANGED <<df, time_col_ok, window_size, step, sort_ascending, sorted_df, start, batches>>
    /\ UNCHANGED notWindow

SlidingSort ==
    /\ sw_pc = "call"
    /\ time_col_ok
    /\ sorted_df' \in SortValues(df, sort_ascending)
    /\ start' = 0
    /\ batches' = <<>>
    /\ sw_pc' = "loop"
    /\ UNCHANGED <<df, time_col_ok, window_size, step, sort_ascending>>
    /\ UNCHANGED notWindow

\* one pass through the body of the while loop
SlidingIter ==
    /\ sw_pc = "loop"
    /\ start < Len(sorted_df)
    /\ Len(batches) < MaxBatches
    /\ LET end == WindowEnd(start, window_size, Len(sorted_df))
       IN  /\ batches' = Append(batches, ILoc(sorted_df, start, end))
           /\ start' = NextStart(start, step)
           /\ sw_pc' = IF end = Len(sorted_df) THEN "done" ELSE "loop"
    /\ UNCHANGED <<df, time_col_ok, window_size, step, sort_ascending, sorted_df>>
    /\ UNCHANGED notWindow

\* the while condition fails
SlidingExit ==
    /\ sw_pc = "loop"
    /\ ~(start < Len(sorted_df))
    /\ sw_pc' = "done"
    /\ UNCHANGED <<df, time_col_ok, window_size, step, sort_ascending, sorted_df, start, batches>>
    /\ UNCHANGED notWindow

NextWindow == SlidingKeyError \/ SlidingSort \/ SlidingIter \/ SlidingExit

SpecWindow == InitWindow /\ [][NextWindow]_vars

\* the loop is sequential code: whenever a step is possible it is taken
FairSpecWindow == SpecWindow /\ WF_vars(NextWindow)

(***************************************************************************)
(* define_batches_by_column                                                *)
(***************************************************************************)

\* A missing key (NaN).
NaNKey == MaxKey + 1
KeyValues == 1..NaNKey

\* the elements of the finite set S of integers, ascending
RECURSIVE Ascending(_)
Ascending(S) ==
    IF S = {} THEN <<>>
    ELSE LET m == CHOOSE x \in S : \A y \in S : x <= y
         IN  <<m>> \o Ascending(S \ {m})

\* the distinct elements of col in the order in which they first occur
RECURSIVE FirstOccurrence(_)
FirstOccurrence(col) ==
    IF col = <<>> THEN <<>>
    ELSE LET front == FirstOccurrence(SubSeq(col, 1, Len(col) - 1))
             last == col[Len(col)]
         IN  IF \E i \in 1..(Len(col) - 1) : col[i] = last THEN front
             ELSE Append(front, last)

\* a grouping that keeps the keys in first-occurrence order (groupby(sort=False))
GroupKeys_Unsorted(col) == SelectSeq(FirstOccurrence(col), LAMBDA v : v # NaNKey)

\* the keys df.groupby(batch_col) yields: the distinct values, sorted ascending
\* (sort=True), without the missing key (dropna=True)
GroupKeys(col) == Ascending({col[i] : i \in 1..Len(col)} \ {NaNKey})

\* the records of the group of key v, in frame order
RECURSIVE GroupRows(_, _)
GroupRows(col, v) ==
    IF col = <<>> THEN <<>>
    ELSE LET front == GroupRows(SubSeq(col, 1, Len(col) - 1), v)
         IN  IF col[Len(col)] = v THEN Append(front, Len(col)) ELSE front

InitByKey ==
    /\ key_col \in SeqsUpTo(KeyValues, MaxRecords)
    /\ batch_col_ok \in BOOLEAN
    /\ group_keys = <<>>
    /\ key_batches = <<>>
    /\ bk_pc = "call"
    /\ IdleWindow
    /\ IdleTable

\* batch_col not in df.columns: KeyError
ByKeyKeyError ==
    /\ bk_pc = "call"
    /\ ~batch_col_ok
    /\ bk_pc' = "error"
    /\ UNCHANGED <<key_col, batch_col_ok, group_keys, key_batches>>
    /\ UNCHANGED notByKey

\* df.groupby(batch_col)
ByKeyGroupby ==
    /\ bk_pc = "call"
    /\ batch_col_ok
    /\ group_keys' = GroupKeys(key_col)
    /\ bk_pc' = "loop"
    /\ UNCHANGED <<key_col, batch_col_ok, key_batches>>
    /\ UNCHANGED notByKey

\* one pass through the body of the for loop
ByKeyIter ==
    /\ bk_pc = "loop"
    /\ group_keys # <<>>
    /\ key_batches' = Append(key_batches, GroupRows(key_col, Head(group_keys)))
    /\ group_keys' = Tail(group_keys)
    /\ UNCHANGED <<key_col, batch_col_ok, bk_pc>>
    /\ UNCHANGED notByKey

\* the iteration is exhausted: return batches
ByKeyReturn ==
    /\ bk_pc = "loop"
    /\ group_keys = <<>>
    /\ bk_pc' = "done"
    /\ UNCHANGED <<key_col, batch_col_ok, group_keys, key_batches>>
    /\ UNCHANGED notByKey

NextByKey == ByKeyKeyError \/ ByKeyGroupby \/ ByKeyIter \/ ByKeyReturn

SpecByKey == InitByKey /\ [][NextByKey]_vars

(***************************************************************************)
(* Contingency tables and tests.  Real numbers are kept exact: a rational  *)
(* is a pair <<numerator, denominator>> with a positive denominator.       *)
(***************************************************************************)

\* The category labels of the row and of the column variable (three row categories
\* give three pairs to compare), and the missing value (NaN) of each.
RowLabels == 1..3
ColLabels == 1..2
NaNRow == Cardinality(RowLabels) + 1
NaNCol == Cardinality(ColLabels) + 1
RowValues == RowLabels \cup {NaNRow}
ColValues == ColLabels \cup {NaNCol}

Entries == {"fisher_test_if_applicable", "cramers_v", "pairwise_chi2_posthoc",
            "summarize_batch"}

\* thresholds a caller of pairwise_chi2_posthoc may hand in
Alphas == {DefaultAlpha, <<1, 100>>}

\* p-values a chi-square test with a positive statistic may yield (the survival
\* function of the chi-square distribution is not computed here: every value of this
\* grid is tried)
PValues == {<<1, 100>>, <<2, 100>>, <<1, 2>>}

RatEq(a, b) == a[1] * b[2] = b[1] * a[2]
RatLess(a, b) == a[1] * b[2] < b[1] * a[2]
Abs(x) == IF x < 0 THEN -x ELSE x

RECURSIVE SumSeq(_)
SumSeq(q) == IF q = <<>> THEN 0 ELSE Head(q) + SumSeq(Tail(q))

RECURSIVE ProdSeq(_)
ProdSeq(q) == IF q = <<>> THEN 1 ELSE Head(q) * ProdSeq(Tail(q))

RECURSIVE Binomial(_, _)
Binomial(m, k) ==
    IF k < 0 \/ k > m THEN 0
    ELSE IF k = 0 THEN 1
    ELSE (Binomial(m - 1, k - 1) * m) \div k

\* table.shape, table.size and the margins
NRows(t) == Len(t.index)
NCols(t) == Len(t.columns)
Size(t) == NRows(t) * NCols(t)
RowSums(t) == [i \in 1..NRows(t) |-> SumSeq(t.values[i])]
ColSums(t) == [j \in 1..NCols(t) |-> SumSeq([i \in 1..NRows(t) |-> t.values[i][j]])]
Total(t) == SumSeq(RowSums(t))

\* pd.crosstab(df[row], df[col], margins=False): the labels are the values observed,
\* sorted; a record with a missing value in either variable is not counted
CrossTab(batch) ==
    LET valid == {k \in 1..Len(batch) : batch[k][1] # NaNRow /\ batch[k][2] # NaNCol}
        idx == Ascending({batch[k][1] : k \in valid})
        cols == Ascending({batch[k][2] : k \in valid})
    IN  [index |-> idx,
         columns |-> cols,
         values |-> [i \in 1..Len(idx) |-> [j \in 1..Len(cols) |->
                        Cardinality({k \in valid : batch[k] = <<idx[i], cols[j]>>})]]]

\* table.loc[[rows[i], rows[j]], :]
SubTable(t, i, j) ==
    [index |-> <<t.index[i], t.index[j]>>,
     columns |-> t.columns,
     values |-> <<t.values[i], t.values[j]>>]

\* scipy.stats.chi2_contingency(observed, correction) without the p-value.
\*   size 0                          -> ValueError
\*   a zero expected frequency       -> ValueError
\*   zero total, non-empty           -> the expected frequencies are 0/0 = nan, and
\*                                      so are the statistic and the p-value
\*   dof = (R-1)(C-1) = 0            -> statistic 0.0
\*   otherwise the Pearson statistic, with Yates' correction (each observed count
\*   moved min(0.5, |O - E|) towards its expected value) when dof = 1.
\* With n the total, r the row sum and c the column sum of a cell, E = r*c/n and the
\* cell's term is d^2 / (4*n*r*c), where d = 2*|n*O - r*c|, less n (not below 0)
\* under the correction.
Chi2Contingency(t, correction) ==
    LET R == NRows(t)
        C == NCols(t)
        n == Total(t)
        rs == RowSums(t)
        cs == ColSums(t)
        dof == (R - 1) * (C - 1)
        yates == correction /\ dof = 1
        Dev(i, j) ==
            LET d == 2 * Abs(n * t.values[i][j] - rs[i] * cs[j])
            IN  IF yates THEN Max(d - n, 0) ELSE d
        Term(i, j) ==
            Dev(i, j) * Dev(i, j) * (ProdSeq(rs) \div rs[i]) * (ProdSeq(cs) \div cs[j])
        num == SumSeq([c \in 1..(R * C) |->
                          Term(((c - 1) \div C) + 1, ((c - 1) % C) + 1)])
    IN  IF R * C = 0 THEN [tag |-> "raise"]
        ELSE IF n = 0 THEN [tag |-> "nan", dof |-> dof]
        ELSE IF (\E i \in 1..R : rs[i] = 0) \/ (\E j \in 1..C : cs[j] = 0)
             THEN [tag |-> "raise"]
        ELSE [tag |-> "ok",
              chi2 |-> IF dof = 0 THEN <<0, 1>>
                       ELSE <<num, 4 * n * ProdSeq(rs) * ProdSeq(cs)>>,
              dof |-> dof,
              expected |-> [i \in 1..R |-> [j \in 1..C |-> <<rs[i] * cs[j], n>>]]]

\* the p-values the test may report for a result of Chi2Contingency: 1.0 for a zero
\* statistic, some value below 1 otherwise
PValuesOf(r) == IF r.chi2[1] = 0 THEN {<<1, 1>>} ELSE PValues

\* scipy.stats.fisher_exact on a 2x2 table <<a, b>>, <<c, d>>: the sample odds ratio
\* and the two-sided p-value, the probability under the hypergeometric distribution
\* of the tables with these margins that are no more likely than the one observed
FisherExact(t) ==
    LET a == t.values[1][1]
        b == t.values[1][2]
        c == t.values[2][1]
        d == t.values[2][2]
        Weight(x) == Binomial(a + b, x) * Binomial(c + d, a + c - x)
        support == Max(0, a - d)..Min(a + b, a + c)
        extreme == {x \in support : Weight(x) <= Weight(a)}
        Mass(S) == SumSeq([k \in 1..(a + b + 1) |-> IF (k - 1) \in S THEN Weight(k - 1) ELSE 0])
    IN  IF a + b = 0 \/ c + d = 0 \/ a + c = 0 \/ b + d = 0
        THEN [oddsratio |-> [kind |-> "nan"], p_value |-> <<1, 1>>]
        ELSE [oddsratio |-> IF c > 0 /\ b > 0
                            THEN [kind |-> "finite", value |-> <<a * d, c * b>>]
                            ELSE [kind |-> "inf"],
              p_value |-> <<Mass(extreme), Mass(support)>>]

\* a test that looks at the number of rows only
FisherTestIfApplicable_RowsOnly(t) ==
    IF NRows(t) = 2
    THEN [tag |-> "value",
          fisher |-> IF NCols(t) = 2 THEN FisherExact(t)
                     ELSE [oddsratio |-> [kind |-> "nan"], p_value |-> <<1, 1>>]]
    ELSE [tag |-> "None"]

\* fisher_test_if_applicable
FisherTestIfApplicable(t) ==
    IF <<NRows(t), NCols(t)>> = <<2, 2>>
    THEN [tag |-> "value", fisher |-> FisherExact(t)]
    ELSE [tag |-> "None"]

\* cramers_v: chi2_contingency is called first, then n == 0 and k == 1 are looked at.
\* A float result v is kept as its square, v = sqrt(sq).
CramersV(t) ==
    LET r == Chi2Contingency(t, TRUE)
        n == Total(t)
        k == Min(NRows(t), NCols(t))
    IN  IF r.tag = "raise" THEN [tag |-> "raise"]
        ELSE IF n = 0 THEN [tag |-> "nan"]
        ELSE IF k = 1 THEN [tag |-> "float", sq |-> <<0, 1>>]
        ELSE [tag |-> "float", sq |-> <<r.chi2[1], r.chi2[2] * n * (k - 1)>>]

\* a correction that forgets the cap at 1
Bonferroni_NoCap(results, m, a) ==
    [k \in 1..Len(results) |->
        LET padj == IF m > 0 THEN <<results[k].p[1] * m, results[k].p[2]>> ELSE results[k].p
        IN  [row1 |-> results[k].row1, row2 |-> results[k].row2,
             chi2 |-> results[k].chi2, p |-> results[k].p,
             p_adj |-> padj, significant |-> RatLess(padj, a)]]

\* the second loop of pairwise_chi2_posthoc:
\*   r["p_adj"] = min(1.0, r["p"] * m) if m > 0 else r["p"]
\*   r["significant"] = r["p_adj"] < alpha
Bonferroni(results, m, a) ==
    [k \in 1..Len(results) |->
        LET pm == <<results[k].p[1] * m, results[k].p[2]>>
            padj == IF m > 0 THEN (IF RatLess(pm, <<1, 1>>) THEN pm ELSE <<1, 1>>)
                    ELSE results[k].p
        IN  [row1 |-> results[k].row1, row2 |-> results[k].row2,
             chi2 |-> results[k].chi2, p |-> results[k].p,
             p_adj |-> padj, significant |-> RatLess(padj, a)]]

\* the stage that follows stage s: within summarize_batch the next call, else return
After(s) ==
    IF entry # "summarize_batch" THEN "done"
    ELSE CASE s = "chi2" -> "fisher"
           [] s = "fisher" -> "cramers"
           [] s = "cramers" -> "posthoc"
           [] s = "posthoc" -> "return"

\* the first stage after the table is built
FirstStage ==
    CASE entry = "summarize_batch" -> "chi2"
      [] entry = "fisher_test_if_applicable" -> "fisher"
      [] entry = "cramers_v" -> "cramers"
      [] entry = "pairwise_chi2_posthoc" -> "posthoc"

\* a frame without the two columns has no values to tabulate
InitTable ==
    /\ entry \in Entries
    /\ cols_ok \in BOOLEAN
    /\ tab_batch \in IF cols_ok THEN SeqsUpTo(RowValues \X ColValues, MaxBatchLen)
                     ELSE {<<>>}
    /\ alpha \in IF entry = "pairwise_chi2_posthoc" THEN Alphas ELSE {DefaultAlpha}
    /\ table = Unset
    /\ chi2_res = Unset
    /\ fisher_res = Unset
    /\ v_res = Unset
    /\ ph_i = 1
    /\ ph_j = 2
    /\ ph_results = <<>>
    /\ ph_m = 0
    /\ summary = Unset
    /\ tab_pc = "crosstab"
    /\ tab_err = "none"
    /\ IdleWindow
    /\ IdleByKey

\* an exception raised in function f ends the call
Raise(f) ==
    /\ tab_pc' = "error"
    /\ tab_err' = f

\* build_contingency_table raises KeyError for an absent column; in summarize_batch
\* the lookup df_batch[row] does
BuildTableKeyError ==
    /\ tab_pc = "crosstab"
    /\ ~cols_ok
    /\ Raise(IF entry = "summarize_batch" THEN entry ELSE "build_contingency_table")
    /\ UNCHANGED <<entry, tab_batch, cols_ok, alpha, table, chi2_res, fisher_res, v_res,
                   ph_i, ph_j, ph_results, ph_m, summary>>
    /\ UNCHANGED notTable

\* build_contingency_table, and the first statement of summarize_batch
BuildTable ==
    /\ tab_pc = "crosstab"
    /\ cols_ok
    /\ table' = CrossTab(tab_batch)
    /\ tab_pc' = FirstStage
    /\ UNCHANGED <<entry, tab_batch, cols_ok, alpha, chi2_res, fisher_res, v_res,
                   ph_i, ph_j, ph_results, ph_m, summary, tab_err>>
    /\ UNCHANGED notTable

\* chi_square_test(table), correction=True
ChiSquareTest ==
    /\ tab_pc = "chi2"
    /\ LET r == Chi2Contingency(table, TRUE)
       IN  IF Size(table) = 0 \/ r.tag = "raise"
           THEN Raise("chi_square_test") /\ UNCHANGED chi2_res
           ELSE /\ \E p \in PValuesOf(r) :
                      chi2_res' = [tag |-> "ok", chi2 |-> r.chi2, p_value |-> p,
                                   dof |-> r.dof, expected |-> r.expected]
                /\ tab_pc' = After("chi2")
                /\ UNCHANGED tab_err
    /\ UNCHANGED <<entry, tab_batch, cols_ok, alpha, table, fisher_res, v_res,
                   ph_i, ph_j, ph_results, ph_m, summary>>
    /\ UNCHANGED notTable

\* fisher_test_if_applicable(table)
FisherTest ==
    /\ tab_pc = "fisher"
    /\ fisher_res' = FisherTestIfApplicable(table)
    /\ tab_pc' = After("fisher")
    /\ UNCHANGED <<entry, tab_batch, cols_ok, alpha, table, chi2_res, v_res,
                   ph_i, ph_j, ph_results, ph_m, summary, tab_err>>
    /\ UNCHANGED notTable

\* cramers_v(table)
CramersVCall ==
    /\ tab_pc = "cramers"
    /\ LET v == CramersV(table)
       IN  IF v.tag = "raise"
           THEN Raise("cramers_v") /\ UNCHANGED v_res
           ELSE v_res' = v /\ tab_pc' = After("cramers") /\ UNCHANGED tab_err
    /\ UNCHANGED <<entry, tab_batch, cols_ok, alpha, table, chi2_res, fisher_res,
                   ph_i, ph_j, ph_results, ph_m, summary>>
    /\ UNCHANGED notTable

\* pairwise_chi2_posthoc: one pass through the body of the inner loop, for the rows
\* at ph_i < ph_j
PosthocPair ==
    /\ tab_pc = "posthoc"
    /\ ph_j <= NRows(table)
    /\ LET r == Chi2Contingency(SubTable(table, ph_i, ph_j), TRUE)
       IN  IF r.tag = "raise"
           THEN Raise("pairwise_chi2_posthoc") /\ UNCHANGED <<ph_i, ph_j, ph_results, ph_m>>
           ELSE /\ \E p \in PValuesOf(r) :
                      ph_results' = Append(ph_results,
                          [row1 |-> table.index[ph_i], row2 |-> table.index[ph_j],
                           chi2 |-> r.chi2, p |-> p])
                /\ ph_m' = ph_m + 1
                /\ IF ph_j < NRows(table)
                   THEN ph_i' = ph_i /\ ph_j' = ph_j + 1
                   ELSE ph_i' = ph_i + 1 /\ ph_j' = ph_i + 2
                /\ UNCHANGED <<tab_pc, tab_err>>
    /\ UNCHANGED <<entry, tab_batch, cols_ok, alpha, table, chi2_res, fisher_res, v_res,
                   summary>>
    /\ UNCHANGED notTable

\* pairwise_chi2_posthoc: both loops are exhausted; the correction loop runs and the
\* results are returned as a frame
PosthocCorrect ==
    /\ tab_pc = "posthoc"
    /\ ph_j > NRows(table)
    /\ ph_results' = Bonferroni(ph_results, ph_m, alpha)
    /\ tab_pc' = After("posthoc")
    /\ UNCHANGED <<entry, tab_batch, cols_ok, alpha, table, chi2_res, fisher_res, v_res,
                   ph_i, ph_j, ph_m, summary, tab_err>>
    /\ UNCHANGED notTable

\* summarize_batch: return the summary record
SummarizeReturn ==
    /\ tab_pc = "return"
    /\ summary' = [tag |-> "summary", table |-> table, chi2 |-> chi2_res,
                   fisher |-> fisher_res, cramers_v |-> v_res, posthoc |-> ph_results]
    /\ tab_pc' = "done"
    /\ UNCHANGED <<entry, tab_batch, cols_ok, alpha, table, chi2_res, fisher_res, v_res,
                   ph_i, ph_j, ph_results, ph_m, tab_err>>
    /\ UNCHANGED notTable

NextTable ==
    \/ BuildTableKeyError
    \/ BuildTable
    \/ ChiSquareTest
    \/ FisherTest
    \/ CramersVCall
    \/ PosthocPair
    \/ PosthocCorrect
    \/ SummarizeReturn

SpecTable == InitTable /\ [][NextTable]_vars

(***************************************************************************)
(* Properties of sliding_window_batches                                    *)
(***************************************************************************)

\* the sorted position p (1-based) lies in some emitted batch
PositionCovered(p) ==
    \E b \in 1..Len(batches) : \E k \in 1..Len(batches[b]) : batches[b][k] = sorted_df[p]

AllPositionsCovered == \A p \in 1..Len(sorted_df) : PositionCovered(p)

\* batch b is a run of consecutive records of the sorted frame
ConsecutiveRun(b) ==
    \E lo \in 0..Len(sorted_df) :
        /\ lo + Len(batches[b]) <= Len(sorted_df)
        /\ \A k \in 1..Len(batches[b]) : batches[b][k] = sorted_df[lo + k]

\* batch b holds the final record of the sorted frame
ReachesEnd(b) ==
    /\ Len(sorted_df) > 0
    /\ \E k \in 1..Len(batches[b]) : batches[b][k] = sorted_df[Len(sorted_df)]

\* C1: a call with step < 1 is rejected: it emits no batch and never returns a list
\* of batches (it ends in an error instead).
C1_StepBelowOneRejected ==
    step < 1 => (batches = <<>> /\ sw_pc # "done")

\* C2 as stated: for window_size >= 1 and step >= 1 the returned batches cover every
\* position of the sorted dataset.
C2_CoverageAnyStep ==
    (sw_pc = "done" /\ window_size >= 1 /\ step >= 1) => AllPositionsCovered

\* C2 amended: for window_size >= 1 and 1 <= step <= window_size the returned batches
\* cover every position of the sorted dataset.
C2_CoverageStepWithinWindow ==
    (sw_pc = "done" /\ window_size >= 1 /\ step >= 1 /\ step <= window_size)
        => AllPositionsCovered

C2_Witness ==
    /\ sw_pc = "done"
    /\ step >= 2
    /\ step <= window_size
    /\ Len(batches) >= 2
    /\ AllPositionsCovered

C3_BatchShape ==
    /\ \A b \in 1..Len(batches) :
        /\ Len(batches[b]) >= 1
        /\ Len(batches[b]) <= window_size
        /\ ConsecutiveRun(b)
    /\ \A b \in 1..(Len(batches) - 1) : ~ReachesEnd(b)

\* C3: for window_size >= 1 and step >= 1 the call terminates, every emitted batch is
\* a non-empty run of at most window_size consecutive sorted records, and no batch
\* follows one that reached the final record.
C3_TerminatesWithWellFormedBatches ==
    /\ []((window_size >= 1 /\ step >= 1) => C3_BatchShape)
    /\ (window_size >= 1 /\ step >= 1) => <>(sw_pc \in {"done", "error"})

C3_Witness ==
    /\ sw_pc = "done"
    /\ window_size >= 1
    /\ step >= 1
    /\ Len(batches) >= 2
    /\ Len(batches[Len(batches)]) < window_size
    /\ ReachesEnd(Len(batches))

(***************************************************************************)
(* Properties of define_batches_by_column                                  *)
(***************************************************************************)

\* the key shared by the records of batch b (batches are never empty)
BatchKey(b) == key_col[key_batches[b][1]]

PresentKeys == {key_col[i] : i \in 1..Len(key_col)} \ {NaNKey}

\* position of the first record of the frame whose key is v
FirstIndex(v) == CHOOSE i \in 1..Len(key_col) :
                    key_col[i] = v /\ \A j \in 1..(i - 1) : key_col[j] # v

OneBatchPerKey ==
    /\ Len(key_batches) = Cardinality(PresentKeys)
    /\ \A v \in PresentKeys : \E b \in 1..Len(key_batches) : BatchKey(b) = v

\* C5 as stated: one batch per distinct key, in the order in which the keys first
\* occur in the dataset.
C5_FirstOccurrenceOrder ==
    bk_pc = "done" =>
        /\ OneBatchPerKey
        /\ \A b, c \in 1..Len(key_batches) :
              b < c => FirstIndex(BatchKey(b)) < FirstIndex(BatchKey(c))

\* C5 amended: one batch per distinct non-missing key, in ascending key order.
C5_SortedKeyOrder ==
    bk_pc = "done" =>
        /\ OneBatchPerKey
        /\ \A b, c \in 1..Len(key_batches) : b < c => BatchKey(b) < BatchKey(c)

C5_Witness ==
    /\ bk_pc = "done"
    /\ Len(key_batches) >= 2
    /\ \E b, c \in 1..Len(key_batches) :
          b < c /\ FirstIndex(BatchKey(b)) > FirstIndex(BatchKey(c))

RECURSIVE TotalSize(_)
TotalSize(bs) == IF bs = <<>> THEN 0 ELSE Len(Head(bs)) + TotalSize(Tail(bs))

\* the places (batch, offset) at which record r occurs
Places(r) ==
    {<<b, k>> \in (1..Len(key_batches)) \X (1..Len(key_col)) :
        k <= Len(key_batches[b]) /\ key_batches[b][k] = r}

\* C10: the returned batches partition the dataset: every record is in exactly one
\* batch, the records of a batch share one key, and the sizes sum to the number of
\* records (a record with a missing key is not dropped).
C10_BatchesPartitionDataset ==
    bk_pc = "done" =>
        /\ \A r \in 1..Len(key_col) : Cardinality(Places(r)) = 1
        /\ \A b \in 1..Len(key_batches) :
              \A k \in 1..Len(key_batches[b]) : key_col[key_batches[b][k]] = BatchKey(b)
        /\ TotalSize(key_batches) = Len(key_col)

(***************************************************************************)
(* Properties of the contingency table and the tests                       *)
(***************************************************************************)

\* the crosstab has been computed
TableBuilt == cols_ok /\ tab_pc \notin {"idle", "crosstab"}

\* C4: the cells of the contingency table sum to the number of records in the batch.
C4_TableCountsEveryRecord ==
    TableBuilt => Total(table) = Len(tab_batch)

TwoByTwo(t) == NRows(t) = 2 /\ NCols(t) = 2

RowPairs == {<<table.index[i], table.index[j]>> : i, j \in 1..NRows(table)}
                \cap {pr \in RowLabels \X RowLabels : pr[1] < pr[2]}

PosthocReturned ==
    /\ TableBuilt
    /\ entry \in {"pairwise_chi2_posthoc", "summarize_batch"}
    /\ tab_pc \in {"return", "done"}

\* C7: pairwise_chi2_posthoc completes without error and returns C(R,2) rows, one for
\* each unordered pair of distinct row categories; none for R < 2.
C7_PosthocOneRowPerPair ==
    /\ tab_err # "pairwise_chi2_posthoc"
    /\ PosthocReturned =>
          /\ Len(ph_results) = Binomial(NRows(table), 2)
          /\ {<<ph_results[k].row1, ph_results[k].row2>> : k \in 1..Len(ph_results)} = RowPairs

Corrected(r) == "p_adj" \in DOMAIN r

CramersVReturnedOrRaised ==
    /\ TableBuilt
    /\ entry = "cramers_v"
    /\ tab_pc \in {"done", "error"}

\* C9: cramers_v returns not-a-number (and does not raise) for a table whose total is
\* 0, and exactly 0.0 for a table with a positive total whose smaller dimension is 1.
C9_CramersVSpecialCases ==
    CramersVReturnedOrRaised =>
        /\ Total(table) = 0 => (tab_pc = "done" /\ v_res.tag = "nan")
        /\ (Total(table) > 0 /\ Min(NRows(table), NCols(table)) = 1) =>
              (tab_pc = "done" /\ v_res = [tag |-> "float", sq |-> <<0, 1>>])

====
